---- MODULE Spec2Model ----
(***************************************************************************)
(* Model of monzo-auth-server/server.py: a Flask application that walks a  *)
(* browser through the OAuth 2.0 authorization-code flow.                  *)
(*                                                                         *)
(* A Python str is a sequence of symbols.  A symbol is a one-character     *)
(* string, or one fixed piece of literal text of the source (a key name,   *)
(* a URL prefix, a piece of HTML) kept whole.  Python's None is a value    *)
(* different from every str.                                               *)
(***************************************************************************)
EXTENDS Naturals, Sequences, FiniteSets

\* ------------------------------------------------------------------ bounds
\* /callback requests that may be blocked in requests.post at the same time
MaxInFlight == 1
\* the longest client_id the URL builder is tried on
MaxUrlIdLen == 3

\* ----------------------------------------------------------- python values
None == <<"None">>

\* bool(v) of an Optional[str]: None and "" are falsy
Truthy(v) == v # None /\ v # <<>>

\* the non-empty strings over alphabet A of length at most n
Strings(A, n) == UNION {[1..k -> A] : k \in 1..n}

\* the browser sessions (one session cookie each)
Sessions == {"s1", "s2"}

UrlAlphabet == {"a", "&", "=", "#", " "}

\* the values the requests of the model carry
ClientIds == {<<"a">>, <<"&">>}
ClientSecrets == {<<"x">>}
Codes == {<<"c">>}
Errors == {<<"e">>}

\* secrets.token_urlsafe(32): a string over the URL-safe alphabet
StateTokens == {<<"t">>, <<"u">>}

\* what request.form.get / request.args.get can return: None, "" or a value
Optional(S) == {None, <<>>} \cup S

\* ----------------------------------------------------------- configuration
REDIRECT_URI == <<"http://localhost:8080/callback">>

TOKEN_ENDPOINT == "https://api.monzo.com/oauth2/token"

VARIABLES
    STATE_TOKEN,   \* module global, set once when the module is loaded
    session,       \* session[s]: the Flask session of browser session s
    submitted,     \* submitted[s]: the pair the last accepted /authorize of s sent
    pending,       \* pending[s]: the /callback of s that is blocked in requests.post
    last,          \* the request handled last and its response
    shown          \* shown[s]: what /api/token answered s under its present credentials

vars == <<STATE_TOKEN, session, submitted, pending, last, shown>>

\* --------------------------------------------------------- AuthURL builder
\* Variant: a state value of its own for each client instead of STATE_TOKEN
generate_auth_url_PerClient(client_id) ==
    <<"https://auth.monzo.com/", "?">>
    \o <<"client_id", "=">> \o client_id \o <<"&">>
    \o <<"redirect_uri", "=">> \o REDIRECT_URI \o <<"&">>
    \o <<"response_type", "=", "code", "&">>
    \o <<"state", "=">> \o (IF client_id = <<"a">> THEN <<"t">> ELSE <<"u">>)

generate_auth_url(client_id) ==
    <<"https://auth.monzo.com/", "?">>
    \o <<"client_id", "=">> \o client_id \o <<"&">>
    \o <<"redirect_uri", "=">> \o REDIRECT_URI \o <<"&">>
    \o <<"response_type", "=", "code", "&">>
    \o <<"state", "=">> \o STATE_TOKEN

\* ------------------------------------------------------------ Flask session
\* a session dict; a key that is not set reads as None (session.get)
EmptySession == [client_id |-> None, client_secret |-> None]

SessionValues ==
    {EmptySession} \cup [client_id : ClientIds, client_secret : ClientSecrets]

\* Variant: one credential slot for the whole process instead of one per session
SaveCredentials_Global(s, client_id, client_secret) ==
    [t \in Sessions |-> [client_id |-> client_id,
                         client_secret |-> client_secret]]

\* Variant: only client_id is written, client_secret stays as it was
SaveCredentials_IdOnly(s, client_id, client_secret) ==
    [session EXCEPT ![s] = [client_id |-> client_id,
                            client_secret |-> session[s].client_secret]]

\* session['client_id'] = client_id; session['client_secret'] = client_secret
SaveCredentials(s, client_id, client_secret) ==
    [session EXCEPT ![s] = [client_id |-> client_id,
                            client_secret |-> client_secret]]

\* ------------------------------------------------------ requests, responses
NoReq == [client_id |-> None, client_secret |-> None,
          code |-> None, state |-> None, error |-> None]

FormReq(client_id, client_secret) ==
    [NoReq EXCEPT !.client_id = client_id, !.client_secret = client_secret]

ArgsReq(code, state, error) ==
    [NoReq EXCEPT !.code = code, !.state = state, !.error = error]

\* the body of requests.post(url, data=...): nothing sent yet
NoPost == [url |-> "", grant_type |-> "", client_id |-> None,
           client_secret |-> None, redirect_uri |-> None, code |-> None]

\* what requests.post gave back: nothing yet
NoReply == [raises |-> "", status_code |-> 0, text |-> ""]

\* jsonify(...) of /api/token: not a JSON response
NoJson == [error |-> None, auth_url |-> None,
           redirect_uri |-> None, state_token |-> None]

\* One handled request: who asked what, what the handler read from the
\* session, and the response; posts counts the token-endpoint POSTs made
\* while handling it, post is the last of them and reply its result.
Response(handler, s, req, read, status, outcome, body) ==
    [handler |-> handler, session |-> s, req |-> req, read |-> read,
     status |-> status, outcome |-> outcome, body |-> body,
     posts |-> 0, post |-> NoPost, reply |-> NoReply, json |-> NoJson,
     location |-> None]

NoResponse == Response("none", "", NoReq, EmptySession, 0, "none", <<>>)

NoCall == [active |-> FALSE, req |-> NoReq, read |-> EmptySession,
           posts |-> 0, post |-> NoPost]

\* ------------------------------------------------------------------------ /
home(s) ==
    /\ last' = Response("home", s, NoReq, session[s], 200, "Form",
                        <<"<h1>Monzo OAuth Authentication Server</h1>">>)
    /\ UNCHANGED <<STATE_TOKEN, session, submitted, pending>>

Home == \E s \in Sessions : home(s)

\* ---------------------------------------------------------------- /authorize
\* Variant: only client_id is required
AuthorizeRejects_OnlyId(client_id, client_secret) == ~Truthy(client_id)

\* line 88
AuthorizeRejects(client_id, client_secret) ==
    ~Truthy(client_id) \/ ~Truthy(client_secret)

AuthorizePage(auth_url) ==
    <<"<script>window.location.href = \"">> \o auth_url
    \o <<"\";</script><h1>Redirecting to Monzo...</h1><a href=\"">> \o auth_url
    \o <<"\">click here</a>">>

authorize(s, client_id, client_secret) ==
    IF AuthorizeRejects(client_id, client_secret)
    THEN /\ last' = Response("authorize", s, FormReq(client_id, client_secret),
                             session[s], 400, "InputError",
                             <<"<h1>Error</h1><p>Both Client ID and Client Secret are required</p>">>)
         /\ UNCHANGED <<STATE_TOKEN, session, submitted, pending>>
    ELSE /\ session' = SaveCredentials(s, client_id, client_secret)
         /\ submitted' = [submitted EXCEPT ![s] =
                             [client_id |-> client_id, client_secret |-> client_secret]]
         /\ last' = [Response("authorize", s, FormReq(client_id, client_secret),
                              session[s], 200, "Redirect",
                              AuthorizePage(generate_auth_url(client_id)))
                         EXCEPT !.location = generate_auth_url(client_id)]
         /\ UNCHANGED <<STATE_TOKEN, pending>>

Authorize ==
    \E s \in Sessions, client_id \in Optional(ClientIds),
       client_secret \in Optional(ClientSecrets) :
        authorize(s, client_id, client_secret)

\* ---------------------------------------------------------------- /callback
\* Variants of the checks with one slip each: the state check left out, the
\* error check made before the session check, the state check made before
\* the error check, the code check left out.
CallbackValidate_NoStateCheck(read, req) ==
    IF ~Truthy(read.client_id) \/ ~Truthy(read.client_secret)
        THEN "SessionExpired"
    ELSE IF Truthy(req.error) THEN "AuthorizationDenied"
    ELSE IF ~Truthy(req.code) THEN "MissingCode"
    ELSE "Valid"

CallbackValidate_ErrorFirst(read, req) ==
    IF Truthy(req.error) THEN "AuthorizationDenied"
    ELSE IF ~Truthy(read.client_id) \/ ~Truthy(read.client_secret)
        THEN "SessionExpired"
    ELSE IF req.state # STATE_TOKEN THEN "StateMismatch"
    ELSE IF ~Truthy(req.code) THEN "MissingCode"
    ELSE "Valid"

CallbackValidate_StateFirst(read, req) ==
    IF ~Truthy(read.client_id) \/ ~Truthy(read.client_secret)
        THEN "SessionExpired"
    ELSE IF req.state # STATE_TOKEN THEN "StateMismatch"
    ELSE IF Truthy(req.error) THEN "AuthorizationDenied"
    ELSE IF ~Truthy(req.code) THEN "MissingCode"
    ELSE "Valid"

CallbackValidate_NoCodeCheck(read, req) ==
    IF ~Truthy(read.client_id) \/ ~Truthy(read.client_secret)
        THEN "SessionExpired"
    ELSE IF Truthy(req.error) THEN "AuthorizationDenied"
    ELSE IF req.state # STATE_TOKEN THEN "StateMismatch"
    ELSE "Valid"

\* Variant: the session check left out
CallbackValidate_NoSessionCheck(read, req) ==
    IF Truthy(req.error) THEN "AuthorizationDenied"
    ELSE IF req.state # STATE_TOKEN THEN "StateMismatch"
    ELSE IF ~Truthy(req.code) THEN "MissingCode"
    ELSE "Valid"

\* lines 109-129: the checks of the handler, in the order the code makes them
CallbackValidate(read, req) ==
    IF ~Truthy(read.client_id) \/ ~Truthy(read.client_secret)
        THEN "SessionExpired"
    ELSE IF Truthy(req.error) THEN "AuthorizationDenied"
    ELSE IF req.state # STATE_TOKEN THEN "StateMismatch"
    ELSE IF ~Truthy(req.code) THEN "MissingCode"
    ELSE "Valid"

\* Variant: the provider's error is not echoed
RejectionPage_NoDetail(outcome, req) ==
    CASE outcome = "SessionExpired" ->
            <<"<h1>Error</h1><p>Session expired. Please start over from the home page.</p>">>
      [] outcome = "AuthorizationDenied" ->
            <<"<h1>Authorization Error</h1><p>Authorization was denied</p>">>
      [] outcome = "StateMismatch" ->
            <<"<h1>Security Error</h1><p>Invalid state token</p>">>
      [] outcome = "MissingCode" ->
            <<"<h1>Error</h1><p>No authorization code received</p>">>

\* the page each rejection returns
RejectionPage(outcome, req) ==
    CASE outcome = "SessionExpired" ->
            <<"<h1>Error</h1><p>Session expired. Please start over from the home page.</p>">>
      [] outcome = "AuthorizationDenied" ->
            <<"<h1>Authorization Error</h1><p>Error: ">> \o req.error \o <<"</p>">>
      [] outcome = "StateMismatch" ->
            <<"<h1>Security Error</h1><p>Invalid state token</p>">>
      [] outcome = "MissingCode" ->
            <<"<h1>Error</h1><p>No authorization code received</p>">>

\* Variant: client_id and client_secret change places
TokenPost_Swapped(client_id, client_secret, code) ==
    [url |-> TOKEN_ENDPOINT,
     grant_type |-> "authorization_code",
     client_id |-> client_secret,
     client_secret |-> client_id,
     redirect_uri |-> REDIRECT_URI,
     code |-> code]

\* Variant: the redirect URI is written a second time, differently
TokenPost_OtherRedirect(client_id, client_secret, code) ==
    [url |-> TOKEN_ENDPOINT,
     grant_type |-> "authorization_code",
     client_id |-> client_id,
     client_secret |-> client_secret,
     redirect_uri |-> <<"http://127.0.0.1:8080/callback">>,
     code |-> code]

\* the data of requests.post('https://api.monzo.com/oauth2/token', data=...)
TokenPost(client_id, client_secret, code) ==
    [url |-> TOKEN_ENDPOINT,
     grant_type |-> "authorization_code",
     client_id |-> client_id,
     client_secret |-> client_secret,
     redirect_uri |-> REDIRECT_URI,
     code |-> code]

InFlight == Cardinality({s \in Sessions : pending[s].active})

\* The handler up to the point where it returns a rejection or blocks in
\* requests.post.
callback(s, code, state, error) ==
    LET read == session[s]
        req == ArgsReq(code, state, error)
        outcome == CallbackValidate(read, req)
    IN  /\ ~pending[s].active
        /\ IF outcome # "Valid"
           THEN /\ last' = Response("callback", s, req, read, 400, outcome,
                                    RejectionPage(outcome, req))
                /\ UNCHANGED <<STATE_TOKEN, session, submitted, pending>>
           ELSE /\ InFlight < MaxInFlight
                /\ pending' = [pending EXCEPT ![s] =
                                  [active |-> TRUE, req |-> req, read |-> read,
                                   posts |-> 1,
                                   post |-> TokenPost(read.client_id,
                                                      read.client_secret, code)]]
                /\ UNCHANGED <<STATE_TOKEN, session, submitted, last>>

Callback ==
    \E s \in Sessions, code \in Optional(Codes),
       state \in {None} \cup StateTokens, error \in Optional(Errors) :
        callback(s, code, state, error)

\* --------------------------------------------------- the provider's answers
TextBoth == "{\"access_token\":\"tok_1\",\"refresh_token\":\"ref_1\"}"
TextAccessOnly == "{\"access_token\":\"tok_1\"}"
TextInvalidClient == "{\"error\":\"invalid_client\"}"
TextList == "[]"
TextNotJson == "<html>Bad Gateway</html>"

\* str(status_code)
StatusText(status_code) ==
    CASE status_code = 200 -> "200"
      [] status_code = 401 -> "401"
      [] status_code = 500 -> "500"

\* requests.post either raises a RequestException or returns a response
ProviderReplies ==
    [raises : {""}, status_code : {200},
     text : {TextBoth, TextAccessOnly, TextInvalidClient, TextList, TextNotJson}]
    \cup {[raises |-> "", status_code |-> 401, text |-> TextInvalidClient],
          [raises |-> "", status_code |-> 500, text |-> TextNotJson]}
    \cup [raises : {"ConnectionError", "Timeout"}, status_code : {0},
          text : {"HTTPSConnectionPool(host='api.monzo.com', port=443)"}]

\* a dict with string keys: a function from its keys to their values
Dict(entries) == [type |-> "dict", value |-> entries]

\* token_response.json(): the decoded body; a body that is not JSON raises
\* requests.exceptions.JSONDecodeError, a RequestException
response_json(text) ==
    CASE text = TextBoth ->
            Dict([access_token |-> <<"tok_1">>, refresh_token |-> <<"ref_1">>])
      [] text = TextAccessOnly -> Dict([access_token |-> <<"tok_1">>])
      [] text = TextInvalidClient -> Dict([error |-> <<"invalid_client">>])
      [] text = TextList -> [type |-> "list", value |-> <<>>]
      [] OTHER -> [type |-> "JSONDecodeError", value |-> <<>>]

\* dict.get(key, default)
DictGet(d, key, default) ==
    IF key \in DOMAIN d.value THEN d.value[key] ELSE default

\* lines 148-230: the page that shows the tokens
SuccessPage(token_data, client_id, client_secret) ==
    <<"<h1>A couple more things</h1>", "MONZO_ACCESS_TOKEN">>
    \o DictGet(token_data, "access_token", None)
    \o <<"MONZO_REFRESH_TOKEN">>
    \o DictGet(token_data, "refresh_token",
               <<"No refresh token (non-confidential client)">>)
    \o <<"MONZO_CLIENT_ID">> \o client_id
    \o <<"MONZO_CLIENT_SECRET">> \o client_secret
    \o <<"<script>", "case 'access_token': text = '">>
    \o DictGet(token_data, "access_token", None)
    \o <<"'", "case 'refresh_token': text = '">>
    \o DictGet(token_data, "refresh_token", <<>>)
    \o <<"'", "case 'client_id': text = '">> \o client_id
    \o <<"'", "case 'client_secret': text = '">> \o client_secret
    \o <<"'", "</script>">>

\* line 233
ExchangeFailedPage(status_code, text) ==
    <<"<h1>Token Exchange Failed</h1><p>Status: ", StatusText(status_code),
      "</p><p>Error: ", text, "</p>">>

\* line 236
RequestErrorPage(description) ==
    <<"<h1>Request Error</h1><p>Error: ", description, "</p>">>

\* lines 132-236: what the handler returns once requests.post is over, as
\* <<status, outcome, body>>.  An exception that is no RequestException
\* leaves the handler and Flask answers 500.
ExchangeResult(call, reply) ==
    IF reply.raises # ""
    THEN <<500, "TransportError", RequestErrorPage(reply.text)>>
    ELSE IF reply.status_code = 200
    THEN LET token_data == response_json(reply.text)
         IN  IF token_data.type = "JSONDecodeError"
             THEN <<500, "TransportError",
                    RequestErrorPage("Expecting value: line 1 column 1 (char 0)")>>
             ELSE IF token_data.type # "dict"
             THEN <<500, "Unhandled", <<"AttributeError: 'list' object has no attribute 'get'">> >>
             ELSE <<200, "Success",
                    SuccessPage(token_data, call.read.client_id,
                                call.read.client_secret)>>
    ELSE <<400, "ExchangeError",
           ExchangeFailedPage(reply.status_code, reply.text)>>

\* Variant: a completed exchange removes the credentials from the session
callback_returns_Clears(s, reply) ==
    LET call == pending[s]
        result == ExchangeResult(call, reply)
    IN  /\ call.active
        /\ last' = [Response("callback", s, call.req, call.read,
                             result[1], result[2], result[3])
                        EXCEPT !.posts = call.posts, !.post = call.post,
                               !.reply = reply]
        /\ pending' = [pending EXCEPT ![s] = NoCall]
        /\ session' = IF result[2] = "Success"
                      THEN [session EXCEPT ![s] = EmptySession]
                      ELSE session
        /\ UNCHANGED <<STATE_TOKEN, submitted>>

\* requests.post returns or raises, and the handler runs to its end
callback_returns(s, reply) ==
    LET call == pending[s]
        result == ExchangeResult(call, reply)
    IN  /\ call.active
        /\ last' = [Response("callback", s, call.req, call.read,
                             result[1], result[2], result[3])
                        EXCEPT !.posts = call.posts, !.post = call.post,
                               !.reply = reply]
        /\ pending' = [pending EXCEPT ![s] = NoCall]
        /\ UNCHANGED <<STATE_TOKEN, session, submitted>>

CallbackReturns ==
    \E s \in Sessions, reply \in ProviderReplies : callback_returns(s, reply)

\* ---------------------------------------------------------------- /api/token
\* Variant: a fresh state token is drawn at every call
api_token_FreshState(s) ==
    LET client_id == session[s].client_id
    IN  /\ IF ~Truthy(client_id)
           THEN /\ last' = [Response("api_token", s, NoReq, session[s], 400,
                                      "NoCredentials", <<>>)
                                EXCEPT !.json = [NoJson EXCEPT !.error =
                                         <<"No client credentials in session">>]]
                /\ STATE_TOKEN' = STATE_TOKEN
           ELSE /\ STATE_TOKEN' \in StateTokens \ {STATE_TOKEN}
                /\ last' = [Response("api_token", s, NoReq, session[s], 200,
                                      "TokenInfo", <<>>)
                                EXCEPT !.json = [NoJson EXCEPT
                                         !.auth_url =
                                            SubSeq(generate_auth_url(client_id), 1,
                                                   Len(generate_auth_url(client_id))
                                                      - Len(STATE_TOKEN))
                                            \o STATE_TOKEN',
                                         !.redirect_uri = REDIRECT_URI,
                                         !.state_token = STATE_TOKEN']]
        /\ UNCHANGED <<session, submitted, pending>>

\* Variant: the credentials are dropped from the session once they are shown
api_token_Consumes(s) ==
    LET client_id == session[s].client_id
    IN  IF ~Truthy(client_id)
        THEN /\ last' = [Response("api_token", s, NoReq, session[s], 400,
                                   "NoCredentials", <<>>)
                             EXCEPT !.json = [NoJson EXCEPT !.error =
                                      <<"No client credentials in session">>]]
             /\ UNCHANGED <<STATE_TOKEN, session, submitted, pending>>
        ELSE /\ last' = [Response("api_token", s, NoReq, session[s], 200,
                                   "TokenInfo", <<>>)
                             EXCEPT !.json = [NoJson EXCEPT
                                      !.auth_url = generate_auth_url(client_id),
                                      !.redirect_uri = REDIRECT_URI,
                                      !.state_token = STATE_TOKEN]]
             /\ session' = [session EXCEPT ![s] = EmptySession]
             /\ UNCHANGED <<STATE_TOKEN, submitted, pending>>

api_token(s) ==
    LET client_id == session[s].client_id
    IN  /\ IF ~Truthy(client_id)
           THEN last' = [Response("api_token", s, NoReq, session[s], 400,
                                  "NoCredentials", <<>>)
                            EXCEPT !.json = [NoJson EXCEPT !.error =
                                     <<"No client credentials in session">>]]
           ELSE last' = [Response("api_token", s, NoReq, session[s], 200,
                                  "TokenInfo", <<>>)
                            EXCEPT !.json = [NoJson EXCEPT
                                     !.auth_url = generate_auth_url(client_id),
                                     !.redirect_uri = REDIRECT_URI,
                                     !.state_token = STATE_TOKEN]]
        /\ UNCHANGED <<STATE_TOKEN, session, submitted, pending>>

ApiToken == \E s \in Sessions : api_token(s)

\* History of /api/token, kept to compare two calls of one session: how many
\* calls (counted up to two) the session has made since its credentials last
\* changed, and the JSON of the latest.  A request that changes the
\* credentials of a session ends its history.
NoShown == [calls |-> 0, json |-> NoJson]

Record(s, json) ==
    [shown EXCEPT ![s] =
        [calls |-> IF shown[s].calls > 0 THEN 2 ELSE 1, json |-> json]]

Forget ==
    shown' = [s \in Sessions |->
                IF session'[s] = session[s] THEN shown[s] ELSE NoShown]

ApiTokenRecorded ==
    \E s \in Sessions : api_token(s) /\ shown' = Record(s, last'.json)

\* ------------------------------------------------------------ session expiry
\* The session lives in a cookie signed with app.secret_key; when the browser
\* drops the cookie the next request starts from an empty session.
session_expires(s) ==
    /\ session[s] # EmptySession
    /\ session' = [session EXCEPT ![s] = EmptySession]
    /\ submitted' = [submitted EXCEPT ![s] = EmptySession]
    /\ UNCHANGED <<STATE_TOKEN, pending, last>>

SessionExpires == \E s \in Sessions : session_expires(s)

\* ------------------------------------------------------------ specification
Init ==
    /\ STATE_TOKEN \in StateTokens
    /\ session = [s \in Sessions |-> EmptySession]
    /\ submitted = [s \in Sessions |-> EmptySession]
    /\ pending = [s \in Sessions |-> NoCall]
    /\ last = NoResponse
    /\ shown = [s \in Sessions |-> NoShown]

Next ==
    \/ Home /\ UNCHANGED shown
    \/ Authorize /\ UNCHANGED shown
    \/ Callback /\ UNCHANGED shown
    \/ CallbackReturns /\ UNCHANGED shown
    \/ ApiToken /\ UNCHANGED shown
    \/ SessionExpires /\ UNCHANGED shown

Spec == Init /\ [][Next]_vars

\* The same server with the history of /api/token kept.  The /callback
\* requests here are the ones that reach the token endpoint.
CallbackWithCode ==
    \E s \in Sessions, code \in Codes : callback(s, code, STATE_TOKEN, None)

NextRecorded ==
    \/ Home /\ Forget
    \/ Authorize /\ Forget
    \/ CallbackWithCode /\ Forget
    \/ CallbackReturns /\ Forget
    \/ ApiTokenRecorded
    \/ SessionExpires /\ Forget

RecordedSpec == Init /\ [][NextRecorded]_vars


\* The URL builder on its own: the first request of a fresh process is an
\* /authorize whose client_id is any string over UrlAlphabet of up to
\* MaxUrlIdLen symbols.
AuthorizeUrl ==
    /\ last = NoResponse
    /\ \E client_id \in Optional(Strings(UrlAlphabet, MaxUrlIdLen)),
          client_secret \in ClientSecrets :
           authorize("s1", client_id, client_secret)
    /\ UNCHANGED shown

UrlSpec == Init /\ [][AuthorizeUrl]_vars

\* ------------------------------------------------- reading a URL's query back
\* What the receiver of a URL does with it (RFC 3986 and the form encoding):
\* the fragment starts at the first "#", the query at the first "?", fields
\* are separated by "&", a field's name ends at its first "=", and a name
\* given twice reads as its first value.  The symbols used here hold no "%"
\* and no "+", so percent-decoding changes nothing.
IndexOf(seq, sym) ==
    IF \E i \in 1..Len(seq) : seq[i] = sym
    THEN CHOOSE i \in 1..Len(seq) :
            seq[i] = sym /\ \A j \in 1..(i - 1) : seq[j] # sym
    ELSE 0

BeforeFirst(seq, sym) ==
    IF IndexOf(seq, sym) = 0 THEN seq
    ELSE SubSeq(seq, 1, IndexOf(seq, sym) - 1)

AfterFirst(seq, sym) ==
    IF IndexOf(seq, sym) = 0 THEN <<>>
    ELSE SubSeq(seq, IndexOf(seq, sym) + 1, Len(seq))

RECURSIVE SplitOn(_, _)
SplitOn(seq, sym) ==
    IF IndexOf(seq, sym) = 0 THEN <<seq>>
    ELSE <<BeforeFirst(seq, sym)>> \o SplitOn(AfterFirst(seq, sym), sym)

QueryString(url) == AfterFirst(BeforeFirst(url, "#"), "?")

QueryParam(url, key) ==
    LET fields == SplitOn(QueryString(url), "&")
        hits == {i \in 1..Len(fields) :
                    /\ IndexOf(fields[i], "=") # 0
                    /\ BeforeFirst(fields[i], "=") = <<key>>}
    IN  IF hits = {} THEN None
        ELSE AfterFirst(fields[CHOOSE i \in hits : \A j \in hits : i <= j], "=")

\* s occurs in text as a run of consecutive symbols
Contains(text, s) ==
    \E i \in 0..(Len(text) - Len(s)) : SubSeq(text, i + 1, i + Len(s)) = s

\* ===================================================================== claims
\* what the handler read from the session holds both credentials
Loadable(read) == Truthy(read.client_id) /\ Truthy(read.client_secret)

\* the last request was a /callback that has been answered
CallbackAnswered == last.handler = "callback"

\* C1: a /callback whose state is absent or differs from STATE_TOKEN ends in
\* a 400 rejection without any POST to the token endpoint, whatever the
\* session holds and whatever code and error are; and no /callback blocked in
\* the token POST carries such a state.
C1_StateMismatchRejected ==
    /\ (CallbackAnswered /\ last.req.state # STATE_TOKEN)
          => (last.status = 400 /\ last.posts = 0 /\ last.post = NoPost)
    /\ \A s \in Sessions :
          pending[s].active => pending[s].req.state = STATE_TOKEN

\* C1 witness: a request that only its state keeps from the exchange
\* (credentials in the session, no error, a code) has been rejected.
C1_Witness ==
    /\ CallbackAnswered
    /\ Loadable(last.read)
    /\ last.req.error = None
    /\ Truthy(last.req.code)
    /\ last.req.state \in StateTokens
    /\ last.req.state # STATE_TOKEN
    /\ last.status = 400

\* C2 as stated: a /callback with a non-empty error is rejected with 400 and
\* no POST, and the rejection message contains the error value, whatever the
\* session holds.
C2_Original ==
    (CallbackAnswered /\ Truthy(last.req.error))
        => /\ last.status = 400
           /\ last.posts = 0
           /\ Contains(last.body, last.req.error)

\* C2: a /callback with a non-empty error is rejected with 400 and no POST,
\* whatever state and code are; when the session holds credentials the
\* outcome is AuthorizationDenied and the message contains the error value,
\* and when it holds none the outcome is SessionExpired.
C2_ErrorRejected ==
    /\ (CallbackAnswered /\ Truthy(last.req.error))
          => /\ last.status = 400
             /\ last.posts = 0
             /\ IF Loadable(last.read)
                THEN /\ last.outcome = "AuthorizationDenied"
                     /\ Contains(last.body, last.req.error)
                ELSE last.outcome = "SessionExpired"
    /\ \A s \in Sessions :
          pending[s].active => ~Truthy(pending[s].req.error)

\* C2 witness: an error sent along with a valid state and a code, in a
\* session that holds credentials, has been rejected and echoed.
C2_Witness ==
    /\ CallbackAnswered
    /\ Loadable(last.read)
    /\ Truthy(last.req.error)
    /\ last.req.state = STATE_TOKEN
    /\ Truthy(last.req.code)
    /\ Contains(last.body, last.req.error)

\* C3: when the session holds no loadable credentials /callback answers
\* SessionExpired (400) for every code, state and error, with the same page
\* whatever they are, and makes no POST.
C3_SessionExpiredFirst ==
    /\ (CallbackAnswered /\ ~Loadable(last.read))
          => /\ last.outcome = "SessionExpired"
             /\ last.status = 400
             /\ last.posts = 0
             /\ last.body = <<"<h1>Error</h1><p>Session expired. Please start over from the home page.</p>">>
    /\ \A s \in Sessions : pending[s].active => Loadable(pending[s].read)

\* C3 witness: a /callback carrying an error, in a session without
\* credentials, has been answered SessionExpired.
C3_Witness ==
    /\ CallbackAnswered
    /\ ~Loadable(last.read)
    /\ Truthy(last.req.error)
    /\ last.outcome = "SessionExpired"

\* the first-match reference decision of the specification
ReferenceDecision(req) ==
    IF req.error # None /\ req.error # <<>> THEN "AuthorizationDenied"
    ELSE IF req.state = None \/ req.state # STATE_TOKEN THEN "StateMismatch"
    ELSE IF req.code = None \/ req.code = <<>> THEN "MissingCode"
    ELSE "Valid"

\* the validator's verdict on the answered /callback: a request that went on
\* to the token POST was found Valid
Verdict == IF last.posts > 0 THEN "Valid" ELSE last.outcome

\* C4: with credentials in the session, the verdict of /callback is the
\* first match of: error non-empty -> AuthorizationDenied, state absent or
\* not STATE_TOKEN -> StateMismatch, code absent or empty -> MissingCode,
\* else Valid.
C4_FirstMatch ==
    /\ (CallbackAnswered /\ Loadable(last.read))
          => Verdict = ReferenceDecision(last.req)
    /\ \A s \in Sessions :
          pending[s].active => ReferenceDecision(pending[s].req) = "Valid"

\* C4 witness: an error together with an invalid state and no code has been
\* answered AuthorizationDenied.
C4_Witness ==
    /\ CallbackAnswered
    /\ Loadable(last.read)
    /\ Truthy(last.req.error)
    /\ last.req.state # STATE_TOKEN
    /\ last.req.code = None
    /\ last.outcome = "AuthorizationDenied"

\* C5 as stated: every /callback with a valid state, no error and a missing
\* or empty code is rejected with MissingCode (400), without a POST.
C5_Original ==
    (/\ CallbackAnswered
     /\ last.req.state = STATE_TOKEN
     /\ ~Truthy(last.req.error)
     /\ ~Truthy(last.req.code))
        => (last.outcome = "MissingCode" /\ last.status = 400 /\ last.posts = 0)

\* C5: a /callback with a valid state, no error and a missing or empty code
\* is rejected with 400 and makes no POST; the outcome is MissingCode when
\* the session holds credentials and SessionExpired when it holds none.
C5_MissingCode ==
    /\ (/\ CallbackAnswered
        /\ last.req.state = STATE_TOKEN
        /\ ~Truthy(last.req.error)
        /\ ~Truthy(last.req.code))
          => /\ last.status = 400
             /\ last.posts = 0
             /\ last.outcome =
                  IF Loadable(last.read) THEN "MissingCode" ELSE "SessionExpired"
    /\ \A s \in Sessions : pending[s].active => Truthy(pending[s].req.code)

\* C5 witness: an empty code with a valid state, in a session that holds
\* credentials, has been answered MissingCode.
C5_Witness ==
    /\ CallbackAnswered
    /\ Loadable(last.read)
    /\ last.req.state = STATE_TOKEN
    /\ last.req.error = None
    /\ last.req.code = <<>>
    /\ last.outcome = "MissingCode"

\* C6: in every step and for every session s: the store of s holds what s
\* last submitted; a token POST that s starts carries the client_id and
\* client_secret s last submitted; the store of s changes only by an accepted
\* /authorize of s itself (to the pair it submitted) or by the expiry of s;
\* and the auth_url /api/token shows s is built from the client_id of s.
C6_SessionIsolation ==
    [][\A s \in Sessions :
        /\ session[s] = submitted[s]
        /\ (pending'[s].active /\ ~pending[s].active)
              => /\ pending'[s].post.client_id = submitted[s].client_id
                 /\ pending'[s].post.client_secret = submitted[s].client_secret
        /\ session'[s] # session[s]
              => \/ (session'[s] = EmptySession /\ last' = last)
                 \/ /\ last'.handler = "authorize"
                    /\ last'.session = s
                    /\ session'[s] = [client_id |-> last'.req.client_id,
                                      client_secret |-> last'.req.client_secret]
        /\ (last' # last /\ last'.handler = "api_token"
                /\ last'.session = s /\ last'.status = 200)
              => last'.json.auth_url = generate_auth_url(submitted[s].client_id)
      ]_vars

\* C6 witness: while a token POST of s1 with client_id "a" is in flight, s2
\* has saved the client_id "&" and s1 still holds "a".
C6_Witness ==
    /\ pending["s1"].active
    /\ pending["s1"].post.client_id = <<"a">>
    /\ session["s1"].client_id = <<"a">>
    /\ session["s2"].client_id = <<"&">>
    /\ last.handler = "authorize"
    /\ last.session = "s2"
    /\ last.outcome = "Redirect"

\* C7 as stated: for every pair /authorize accepts, the query of the redirect
\* URL read back gives state = STATE_TOKEN and client_id = the submitted
\* value.
C7_Original ==
    (last.handler = "authorize" /\ last.outcome = "Redirect")
        => /\ QueryParam(last.location, "state") = STATE_TOKEN
           /\ QueryParam(last.location, "client_id") = last.req.client_id

\* C8: an /authorize with client_id or client_secret missing or empty answers
\* 400 and leaves the session store as it was; with both non-empty it stores
\* exactly the submitted pair in its own session, over whatever was there, and
\* answers with the page that redirects to generate_auth_url(client_id).
C8_Authorize ==
    [][(last' # last /\ last'.handler = "authorize")
        => LET s == last'.session
               id == last'.req.client_id
               secret == last'.req.client_secret
           IN  IF id \in {None, <<>>} \/ secret \in {None, <<>>}
               THEN last'.status = 400 /\ session' = session
               ELSE /\ session' = [session EXCEPT ![s] =
                                      [client_id |-> id, client_secret |-> secret]]
                    /\ last'.status = 200
                    /\ last'.location = generate_auth_url(id)
                    /\ Contains(last'.body, generate_auth_url(id))
      ]_vars

\* C8 witness: an accepted /authorize has replaced a different pair saved
\* earlier in the same session.
C8_Witness ==
    /\ last.handler = "authorize"
    /\ last.outcome = "Redirect"
    /\ Loadable(last.read)
    /\ last.read.client_id # last.req.client_id
    /\ session[last.session].client_id = last.req.client_id

\* the POST the specification asks for
ExpectedPost(read, req) ==
    [url |-> "https://api.monzo.com/oauth2/token",
     grant_type |-> "authorization_code",
     client_id |-> read.client_id,
     client_secret |-> read.client_secret,
     redirect_uri |-> <<"http://localhost:8080/callback">>,
     code |-> req.code]

\* C9: a Valid /callback makes exactly one POST to the token endpoint, with
\* grant_type=authorization_code, the session's client_id and client_secret,
\* the fixed redirect URI and the request's code; no /callback makes more
\* than one POST; and a non-200 answer ends in ExchangeError with a message
\* that contains the status code and the raw body.
C9_SinglePost ==
    /\ \A s \in Sessions :
          pending[s].active
              => /\ pending[s].posts = 1
                 /\ pending[s].post = ExpectedPost(pending[s].read, pending[s].req)
    /\ CallbackAnswered => last.posts \in {0, 1}
    /\ (CallbackAnswered /\ Loadable(last.read)
            /\ ReferenceDecision(last.req) = "Valid")
          => /\ last.posts = 1
             /\ last.post = ExpectedPost(last.read, last.req)
    /\ (CallbackAnswered /\ last.posts > 0 /\ last.reply.raises = ""
            /\ last.reply.status_code # 200)
          => /\ last.outcome = "ExchangeError"
             /\ Contains(last.body, <<StatusText(last.reply.status_code)>>)
             /\ Contains(last.body, <<last.reply.text>>)

\* C9 witness: the provider answered 401 invalid_client and the request
\* ended in ExchangeError after one POST.
C9_Witness ==
    /\ CallbackAnswered
    /\ last.posts = 1
    /\ last.reply.status_code = 401
    /\ last.reply.text = TextInvalidClient
    /\ last.outcome = "ExchangeError"

\* the token POST failed at the network level: it raised, or it returned 200
\* with a body that is not JSON
TransportFailure(reply) ==
    \/ reply.raises # ""
    \/ (reply.status_code = 200
            /\ response_json(reply.text).type = "JSONDecodeError")

\* C10 as stated: every /callback ends with status 200, 400 or 500 and never
\* by an exception the handler does not catch; a network-level failure of
\* the token POST ends in TransportError (500) after the one POST.
C10_Original ==
    CallbackAnswered
        => /\ last.status \in {200, 400, 500}
           /\ last.outcome # "Unhandled"
           /\ (last.posts > 0 /\ TransportFailure(last.reply))
                 => (last.outcome = "TransportError" /\ last.status = 500
                        /\ last.posts = 1)

\* C11: when a session calls /api/token again and its credentials have not
\* changed since its previous call, the answer has the same auth_url and the
\* same state_token as the previous one, whatever the other session did in
\* between.
C11_Idempotent ==
    [][\A s \in Sessions :
        (shown[s].calls > 0 /\ shown'[s].calls = 2 /\ shown'[s] # shown[s])
            => /\ shown'[s].json.auth_url = shown[s].json.auth_url
               /\ shown'[s].json.state_token = shown[s].json.state_token
      ]_vars

\* C11 witness: s1 has called /api/token twice under the same credentials
\* and got a URL, and s2 holds other credentials of its own.
C11_Witness ==
    /\ shown["s1"].calls = 2
    /\ shown["s1"].json.auth_url # None
    /\ last.handler = "api_token"
    /\ last.session = "s1"
    /\ Loadable(session["s2"])
    /\ session["s2"] # session["s1"]

\* C12: /api/token answers the 400 JSON error exactly when the session holds
\* no credentials, which is when /callback answers SessionExpired; otherwise
\* it answers 200 with the auth_url /authorize builds for the session's
\* client_id, the fixed redirect URI and STATE_TOKEN; and it leaves the
\* session store as it was.
C12_ApiToken ==
    [][(last' # last /\ last'.handler = "api_token")
        => LET s == last'.session
           IN  /\ session' = session
               /\ (last'.status = 400) <=> ~Loadable(session[s])
               /\ (last'.status = 400)
                    <=> (CallbackValidate(session[s], NoReq) = "SessionExpired")
               /\ IF last'.status = 400
                  THEN /\ last'.json.error # None
                       /\ last'.json.auth_url = None
                  ELSE /\ last'.status = 200
                       /\ last'.json.error = None
                       /\ last'.json.auth_url
                            = generate_auth_url(session[s].client_id)
                       /\ last'.json.redirect_uri
                            = <<"http://localhost:8080/callback">>
                       /\ last'.json.state_token = STATE_TOKEN
      ]_vars

\* C12 witness: /api/token has answered 200 in a session that holds
\* credentials, after answering 400 is possible in the other, empty one.
C12_Witness ==
    /\ last.handler = "api_token"
    /\ last.status = 200
    /\ Loadable(session[last.session])
    /\ last.json.auth_url = generate_auth_url(session[last.session].client_id)
    /\ \E s \in Sessions : session[s] = EmptySession

\* the state value a URL was built with is tok
BuiltWithState(url, tok) ==
    /\ Len(url) >= Len(tok) + 2
    /\ SubSeq(url, Len(url) - Len(tok) - 1, Len(url)) = <<"state", "=">> \o tok

\* C13: no step changes STATE_TOKEN; every authorization URL that /authorize
\* or /api/token issues, in any session, is built with state = STATE_TOKEN;
\* and /callback finds a state mismatch exactly when the state it is given
\* is not STATE_TOKEN.
C13_OneStateToken ==
    [][/\ STATE_TOKEN' = STATE_TOKEN
       /\ (last'.handler = "authorize" /\ last'.status = 200)
             => BuiltWithState(last'.location, STATE_TOKEN)
       /\ (last'.handler = "api_token" /\ last'.status = 200)
             => /\ BuiltWithState(last'.json.auth_url, STATE_TOKEN)
                /\ last'.json.state_token = STATE_TOKEN
       /\ (last'.handler = "callback" /\ Loadable(last'.read)
               /\ ~Truthy(last'.req.error))
             => ((last'.outcome = "StateMismatch")
                    <=> (last'.req.state # STATE_TOKEN))
      ]_vars

\* C13 witness: /api/token has given s2 a URL with STATE_TOKEN while s1
\* holds another client_id and has a /callback past the state check.
C13_Witness ==
    /\ last.handler = "api_token"
    /\ last.session = "s2"
    /\ last.status = 200
    /\ BuiltWithState(last.json.auth_url, STATE_TOKEN)
    /\ Loadable(session["s1"])
    /\ session["s1"].client_id # session["s2"].client_id
    /\ pending["s1"].active

\* the token POST was answered 200 with a body that is JSON
AnsweredJson(reply) ==
    /\ reply.raises = ""
    /\ reply.status_code = 200
    /\ response_json(reply.text).type # "JSONDecodeError"

\* the decoded body has the key, and the page shows its value
Shows(body, token_data, key) ==
    (token_data.type = "dict" /\ key \in DOMAIN token_data.value)
        => Contains(body, token_data.value[key])

\* C14 as stated: when the token POST of a Valid /callback returns 200 with a
\* parseable JSON body, the response is the 200 success page; it shows the
\* body's access_token and, when there is one, its refresh_token, and the
\* placeholder when there is none.
C14_Original ==
    (CallbackAnswered /\ last.posts > 0 /\ AnsweredJson(last.reply))
        => LET token_data == response_json(last.reply.text)
           IN  /\ last.status = 200
               /\ last.outcome = "Success"
               /\ Shows(last.body, token_data, "access_token")
               /\ Shows(last.body, token_data, "refresh_token")
               /\ (token_data.type = "dict"
                       /\ "refresh_token" \notin DOMAIN token_data.value)
                     => Contains(last.body,
                                 <<"No refresh token (non-confidential client)">>)

\* C15: every session holds either a non-empty client_id and a non-empty
\* client_secret or neither of the two keys, so that the client_id test of
\* /api/token and the two-field test of /callback agree.
C15_BothOrNeither ==
    \A s \in Sessions :
        /\ Loadable(session[s]) \/ session[s] = EmptySession
        /\ ~Truthy(session[s].client_id) <=> ~Loadable(session[s])

\* C15 witness: an /authorize that gave a client_id and an empty
\* client_secret has been rejected in a session that holds a pair, and the
\* pair is still there.
C15_Witness ==
    /\ last.handler = "authorize"
    /\ last.status = 400
    /\ Truthy(last.req.client_id)
    /\ last.req.client_secret = <<>>
    /\ Loadable(session[last.session])
    /\ session[last.session].client_id # last.req.client_id

\* C16: no step of /callback (a rejection, the start of the token POST, the
\* answer after it, whatever the outcome) changes the session store or
\* STATE_TOKEN; and when an exchange has succeeded in a session that still
\* holds its credentials, the same request is Valid again.
C16_CallbackFrame ==
    [][\A s \in Sessions :
        (\/ (last' # last /\ last'.handler = "callback" /\ last'.session = s)
         \/ pending'[s] # pending[s])
            => /\ session' = session
               /\ STATE_TOKEN' = STATE_TOKEN
               /\ (last'.outcome = "Success" /\ pending[s].active
                       /\ Loadable(session[s]))
                     => CallbackValidate(session'[s], last'.req) = "Valid"
      ]_vars

\* C16 witness: after the exchange of s1 succeeded, s1 holds the credentials
\* it had and has a second token POST in flight.
C16_Witness ==
    /\ CallbackAnswered
    /\ last.session = "s1"
    /\ last.outcome = "Success"
    /\ session["s1"] = last.read
    /\ pending["s1"].active

\* C17: a token POST starts in session s only when s has had an accepted
\* /authorize and has not expired since; a /callback blocked in the POST read
\* both credentials from its session.
C17_AuthorizeFirst ==
    [][\A s \in Sessions :
        /\ (pending'[s].active /\ ~pending[s].active)
              => (submitted[s] # EmptySession /\ Loadable(submitted[s]))
        /\ pending[s].active => Loadable(pending[s].read)
      ]_vars

\* C17 witness: s2, which holds no credentials (it never had an accepted
\* /authorize, or has expired since), sent a /callback with a good state and
\* a code and was answered SessionExpired without a POST.
C17_Witness ==
    /\ CallbackAnswered
    /\ last.session = "s2"
    /\ last.req.state = STATE_TOKEN
    /\ Truthy(last.req.code)
    /\ last.req.error = None
    /\ last.outcome = "SessionExpired"
    /\ last.posts = 0
    /\ submitted["s2"] = EmptySession
    /\ ~pending["s2"].active

\* the redirect_uri parameter a URL was built with is uri
BuiltWithRedirect(url, uri) ==
    Contains(url, <<"&", "redirect_uri", "=">> \o uri \o <<"&">>)

\* C18: the redirect_uri in every authorization URL of /authorize and
\* /api/token, the redirect_uri /api/token reports, and the redirect_uri of
\* every token POST are the one configured value.
C18_OneRedirectUri ==
    LET uri == <<"http://localhost:8080/callback">>
    IN  /\ (last.handler = "authorize" /\ last.status = 200)
              => BuiltWithRedirect(last.location, uri)
        /\ (last.handler = "api_token" /\ last.status = 200)
              => /\ BuiltWithRedirect(last.json.auth_url, uri)
                 /\ last.json.redirect_uri = uri
        /\ (CallbackAnswered /\ last.posts > 0) => last.post.redirect_uri = uri
        /\ \A s \in Sessions :
              pending[s].active => pending[s].post.redirect_uri = uri

\* C18 witness: a token POST of s1 is in flight with the redirect URI that
\* the URL just given to s2 by /api/token carries.
C18_Witness ==
    /\ pending["s1"].active
    /\ last.handler = "api_token"
    /\ last.session = "s2"
    /\ last.status = 200
    /\ BuiltWithRedirect(last.json.auth_url, pending["s1"].post.redirect_uri)

====
